---- MODULE Spec2Model ----
(***************************************************************************)
(* DebuggerGlobalScope::NotifyNewSource                                    *)
(* (components/script/dom/debuggerglobalscope.rs).                         *)
(*                                                                         *)
(* The debugger global receives one notification per compiled source and   *)
(* either sends CreateSourceActor(pipeline_id, SourceInfo) on the devtools *)
(* channel, returns without sending, or panics (expect / unwrap).          *)
(*                                                                         *)
(* Option<T> is modelled as a sequence of length 0 (None) or 1 (Some).     *)
(* A URL string is modelled as its sequence of lexical parts (scheme,      *)
(* authority, path segments); a parsed URL is a record.  A worker id       *)
(* string is a sequence of characters.                                     *)
(***************************************************************************)
EXTENDS Naturals, Sequences, FiniteSets

VARIABLES devtools_chan, connected, chan, args, outcome, ncalls

vars == <<devtools_chan, connected, chan, args, outcome, ncalls>>

None == <<>>
Some(x) == <<x>>
IsSome(o) == o # <<>>
IsNone(o) == o = <<>>
Unwrap(o) == o[1]
\* Option::or
OrElse(a, b) == IF IsSome(a) THEN a ELSE b

(***************************************************************************)
(* Bounds                                                                  *)
(***************************************************************************)
\* Number of NotifyNewSource calls explored over the full input space.
MaxCalls == 1
\* Number of NotifyNewSource calls explored over the reduced input space.
MaxSeqCalls == 3

(***************************************************************************)
(* URL strings and the URL parser (ServoUrl::parse, parse_with_base)       *)
(***************************************************************************)
Scheme(s) == [kind |-> "scheme", val |-> s]
Authority(h) == [kind |-> "authority", val |-> h]
Segment(p) == [kind |-> "segment", val |-> p]

\* "about:blank"
UrlAboutBlank == <<Scheme("about"), Segment("blank")>>
\* "https://example.com/page.html"
UrlPage == <<Scheme("https"), Authority("example.com"), Segment("page.html")>>
\* "https://example.com/evaled.js"
UrlEvaled == <<Scheme("https"), Authority("example.com"), Segment("evaled.js")>>
\* "evaled.js" (relative: parses only against a hierarchical base)
UrlRelative == <<Segment("evaled.js")>>
\* "https://" (a scheme that needs a host, with an empty host: never parses)
UrlEmptyHost == <<Scheme("https"), Authority("")>>

SpecialSchemes == {"https", "http"}

RECURSIVE SegmentsOf(_)
SegmentsOf(parts) ==
    IF parts = <<>> THEN <<>>
    ELSE IF Head(parts).kind = "segment"
         THEN <<Head(parts).val>> \o SegmentsOf(Tail(parts))
         ELSE SegmentsOf(Tail(parts))

\* All but the last path segment: the directory a relative reference is
\* resolved in.
Directory(path) == IF path = <<>> THEN <<>> ELSE SubSeq(path, 1, Len(path) - 1)

\* An input that starts with a scheme is parsed on its own, whatever the base.
ParseWithScheme(input) ==
    LET scheme == Head(input).val
        rest == Tail(input)
    IN  IF scheme \in SpecialSchemes
        THEN IF rest # <<>> /\ Head(rest).kind = "authority" /\ Head(rest).val # ""
             THEN Some([scheme |-> scheme, host |-> Head(rest).val,
                        path |-> SegmentsOf(Tail(rest)),
                        cannot_be_a_base |-> FALSE])
             ELSE None
        ELSE IF rest # <<>> /\ Head(rest).kind = "authority"
             THEN Some([scheme |-> scheme, host |-> Head(rest).val,
                        path |-> SegmentsOf(Tail(rest)),
                        cannot_be_a_base |-> FALSE])
             ELSE Some([scheme |-> scheme, host |-> "",
                        path |-> SegmentsOf(rest),
                        cannot_be_a_base |-> TRUE])

\* ServoUrl::parse_with_base(base: Option<&ServoUrl>, input) .ok()
ParseWithBase(base, input) ==
    IF input # <<>> /\ Head(input).kind = "scheme"
    THEN ParseWithScheme(input)
    ELSE IF IsNone(base) THEN None
    ELSE IF Unwrap(base).cannot_be_a_base THEN None
    ELSE IF input = <<>> THEN base
    ELSE Some([Unwrap(base) EXCEPT
                 !.path = Directory(Unwrap(base).path) \o SegmentsOf(input)])

\* ServoUrl::parse(input) .ok()
Parse(input) == ParseWithBase(None, input)

(***************************************************************************)
(* Worker id strings and WorkerId's FromStr                                *)
(***************************************************************************)
LowerHex == {"a", "b", "c", "d", "e", "f"}
UpperHex == {"A", "B", "C", "D", "E", "F"}
Digits == {"0", "1", "2", "3", "4", "5", "6", "7", "8", "9"}

ToLowerHex(c) ==
    CASE c = "A" -> "a" [] c = "B" -> "b" [] c = "C" -> "c"
      [] c = "D" -> "d" [] c = "E" -> "e" [] c = "F" -> "f"
      [] OTHER -> c

\* id.parse::<WorkerId>() .ok(): hexadecimal digits of either case denote the
\* same id; anything else is an error.
ParseWorkerId(s) ==
    IF s # <<>> /\ \A i \in 1..Len(s) : s[i] \in LowerHex \cup UpperHex \cup Digits
    THEN Some([i \in 1..Len(s) |-> ToLowerHex(s[i])])
    ELSE None

\* Index::new(value): None for zero.
IndexNew(value) == IF value = 0 THEN None ELSE Some(value)

(***************************************************************************)
(* Notifications (the NotifyNewSource dictionary)                          *)
(***************************************************************************)
EphemeralTypes ==
    {"injectedScript", "eval", "debugger eval", "Function", "javascriptURL",
     "eventHandler", "domTimer"}

\* Introduction types the engine may report: the seven above, "inlineScript",
\* an ordinary type, and two that differ from a known one only in case.
IntroductionTypes ==
    EphemeralTypes \cup {"inlineScript", "normalScript", "Eval", "InlineScript"}

PipelineIds ==
    {[namespaceId |-> 1, index |-> 0],
     [namespaceId |-> 0, index |-> 2]}

Urls == {UrlAboutBlank, UrlPage, UrlRelative}
UrlOverrides == {None, Some(UrlEvaled), Some(UrlRelative), Some(UrlEmptyHost)}
WorkerIds == {None, Some(<<"A", "1">>), Some(<<"z", "1">>)}
Sources == {[text |-> "var a;", spidermonkeyId |-> 1]}

Notification(pid, src, url, it, ovr, wid) ==
    [pipelineId |-> pid, spidermonkeyId |-> src.spidermonkeyId, url |-> url,
     text |-> src.text, introductionType |-> it, urlOverride |-> ovr,
     workerId |-> wid]

Notifications ==
    {Notification(pid, src, url, it, ovr, wid) :
        pid \in PipelineIds, src \in Sources, url \in Urls,
        it \in {None} \cup {Some(t) : t \in IntroductionTypes},
        ovr \in UrlOverrides, wid \in WorkerIds}

Pid1 == [namespaceId |-> 0, index |-> 1]
Pid0 == [namespaceId |-> 0, index |-> 0]
Src1 == [text |-> "var a;", spidermonkeyId |-> 1]
Src2 == [text |-> "f();", spidermonkeyId |-> 2]

\* The reduced input space used for sequences of calls.
SeqNotifications ==
    {Notification(Pid1, Src1, UrlAboutBlank, Some("eval"), None, None),
     Notification(Pid1, Src1, UrlAboutBlank, Some("eval"), Some(UrlEvaled), None),
     Notification(Pid1, Src2, UrlPage, Some("inlineScript"), None,
                  Some(<<"A", "1">>)),
     Notification(Pid1, Src1, UrlPage, None, None, None),
     Notification(Pid1, Src2, UrlPage, Some("normalScript"), None, None),
     Notification(Pid1, Src1, UrlRelative, Some("normalScript"), None, None),
     Notification(Pid1, Src1, UrlPage, Some("normalScript"), None,
                  Some(<<"z", "1">>)),
     Notification(Pid0, Src1, UrlPage, Some("normalScript"), None, None)}

(***************************************************************************)
(* The steps of NotifyNewSource                                            *)
(***************************************************************************)

\* Variant: the channel is used without checking that it is there.
HasDevtoolsChan_Unchecked(dc) == TRUE

\* if let Some(devtools_chan) = self.as_global_scope().devtools_chan()
HasDevtoolsChan(dc) == IsSome(dc)

\* Variant: the index is taken as it comes, zero included.
PipelineIdOf_Unchecked(a) ==
    Some([namespace_id |-> a.pipelineId.namespaceId, index |-> a.pipelineId.index])

\* PipelineId { namespace_id, index: Index::new(index).expect(..) }
\* None stands for the panic of expect.
PipelineIdOf(a) ==
    IF IsSome(IndexNew(a.pipelineId.index))
    THEN Some([namespace_id |-> a.pipelineId.namespaceId,
               index |-> Unwrap(IndexNew(a.pipelineId.index))])
    ELSE None

\* Variant: a missing introduction type defaults to the empty string.
IntroductionTypeOf_Defaulted(a) ==
    IF IsNone(a.introductionType) THEN Some("") ELSE a.introductionType

\* args.introductionType.as_ref()
IntroductionTypeOf(a) == a.introductionType

\* ServoUrl::parse(args.url.str()).ok()
UrlOriginalOf(a) == Parse(a.url)

\* args.urlOverride.map(..).and_then(|url| parse_with_base(url_original, url).ok())
UrlOverrideOf(a, url_original) ==
    IF IsNone(a.urlOverride) THEN None
    ELSE ParseWithBase(url_original, Unwrap(a.urlOverride))

\* Variant: one of the seven types is missing from the list.
NotCreatingEphemeral_ShortList(introduction_type, url_override) ==
    introduction_type \in (EphemeralTypes \ {"domTimer"}) /\ IsNone(url_override)

AsciiLowerType(t) ==
    CASE t = "Eval" -> "eval" [] t = "InlineScript" -> "inlineScript" [] OTHER -> t

\* Variant: the type is compared ignoring case.
NotCreatingEphemeral_IgnoreCase(introduction_type, url_override) ==
    AsciiLowerType(introduction_type) \in EphemeralTypes /\ IsNone(url_override)

\* [..].contains(&introduction_type.str()) && url_override.is_none()
NotCreatingEphemeral(introduction_type, url_override) ==
    introduction_type \in EphemeralTypes /\ IsNone(url_override)

\* Variant: the override URL is not looked at.
Inline_TypeOnly(introduction_type, url_override) ==
    introduction_type = "inlineScript"

\* introduction_type.str() == "inlineScript" && url_override.is_none()
Inline(introduction_type, url_override) ==
    introduction_type = "inlineScript" /\ IsNone(url_override)

\* Variant: the original URL is preferred to the override.
ResolvedUrl_OriginalFirst(url_override, url_original) ==
    OrElse(url_original, url_override)

\* Variant: a placeholder URL stands in when neither URL parses.
ResolvedUrl_Placeholder(url_override, url_original) ==
    OrElse(OrElse(url_override, url_original), Parse(UrlAboutBlank))

\* url_override.or(url_original)
ResolvedUrl(url_override, url_original) == OrElse(url_override, url_original)

\* args.workerId.as_ref().map(|id| id.parse().unwrap())
\* ok = FALSE stands for the panic of unwrap.
WorkerIdOf(a) ==
    IF IsNone(a.workerId) THEN [ok |-> TRUE, val |-> None]
    ELSE IF IsSome(ParseWorkerId(Unwrap(a.workerId)))
         THEN [ok |-> TRUE, val |-> ParseWorkerId(Unwrap(a.workerId))]
         ELSE [ok |-> FALSE, val |-> None]

\* (!inline).then(|| args.text.to_string())
ContentOf(a, inline) == IF inline THEN None ELSE Some(a.text)

MakeSourceInfo(a, url, introduction_type, inline, worker_id) ==
    [url |-> url,
     introduction_type |-> introduction_type,
     inline |-> inline,
     worker_id |-> worker_id,
     content |-> ContentOf(a, inline),
     content_type |-> None,
     spidermonkey_id |-> a.spidermonkeyId]

CreateSourceActor(pipeline_id, source_info) ==
    [pipeline_id |-> pipeline_id, source_info |-> source_info]

\* Variant: the message is put ahead of the ones already queued.
Send_Front(ch, conn, msg) == IF conn THEN Some(<<msg>> \o ch) ELSE None

\* devtools_chan.send(msg): Ok with the message queued, or Err (None) when the
\* receiving end is gone.
Send(ch, conn, msg) == IF conn THEN Some(Append(ch, msg)) ELSE None

Finish(kind, ch) == [outcome |-> kind, chan |-> ch]

Panics == {"panic_index", "panic_worker_id", "panic_send"}
Suppressions == {"no_introduction_type", "not_creating_ephemeral", "no_valid_url"}

\* Variant: the worker id is parsed before the suppression checks.
NotifyNewSourceResult_WorkerIdFirst(a, dc, conn, ch) ==
    IF ~HasDevtoolsChan(dc) THEN Finish("no_devtools_chan", ch)
    ELSE IF IsNone(PipelineIdOf(a)) THEN Finish("panic_index", ch)
    ELSE IF IsNone(IntroductionTypeOf(a)) THEN Finish("no_introduction_type", ch)
    ELSE
      LET pipeline_id == Unwrap(PipelineIdOf(a))
          introduction_type == Unwrap(IntroductionTypeOf(a))
          url_original == UrlOriginalOf(a)
          url_override == UrlOverrideOf(a, url_original)
          inline == Inline(introduction_type, url_override)
          url == ResolvedUrl(url_override, url_original)
          worker_id == WorkerIdOf(a)
          sent == Send(ch, conn,
                       CreateSourceActor(pipeline_id,
                           MakeSourceInfo(a, Unwrap(url), introduction_type,
                                          inline, worker_id.val)))
      IN  IF ~worker_id.ok THEN Finish("panic_worker_id", ch)
          ELSE IF NotCreatingEphemeral(introduction_type, url_override)
          THEN Finish("not_creating_ephemeral", ch)
          ELSE IF IsNone(url) THEN Finish("no_valid_url", ch)
          ELSE IF IsNone(sent) THEN Finish("panic_send", ch)
          ELSE Finish("sent", Unwrap(sent))

\* The whole call: the outcome and the contents of the channel after it.
NotifyNewSourceResult(a, dc, conn, ch) ==
    IF ~HasDevtoolsChan(dc) THEN Finish("no_devtools_chan", ch)
    ELSE IF IsNone(PipelineIdOf(a)) THEN Finish("panic_index", ch)
    ELSE IF IsNone(IntroductionTypeOf(a)) THEN Finish("no_introduction_type", ch)
    ELSE
      LET pipeline_id == Unwrap(PipelineIdOf(a))
          introduction_type == Unwrap(IntroductionTypeOf(a))
          url_original == UrlOriginalOf(a)
          url_override == UrlOverrideOf(a, url_original)
          inline == Inline(introduction_type, url_override)
          url == ResolvedUrl(url_override, url_original)
          worker_id == WorkerIdOf(a)
          sent == Send(ch, conn,
                       CreateSourceActor(pipeline_id,
                           MakeSourceInfo(a, Unwrap(url), introduction_type,
                                          inline, worker_id.val)))
      IN  IF NotCreatingEphemeral(introduction_type, url_override)
          THEN Finish("not_creating_ephemeral", ch)
          ELSE IF IsNone(url) THEN Finish("no_valid_url", ch)
          ELSE IF ~worker_id.ok THEN Finish("panic_worker_id", ch)
          ELSE IF IsNone(sent) THEN Finish("panic_send", ch)
          ELSE Finish("sent", Unwrap(sent))

(***************************************************************************)
(* State machine                                                           *)
(***************************************************************************)
\* DebuggerGlobalScope::new: the devtools channel is given or not; when it is
\* given, its receiving end is alive or already gone.
Init ==
    /\ devtools_chan \in {None, Some("devtools")}
    /\ connected \in BOOLEAN
    /\ (IsNone(devtools_chan) => ~connected)
    /\ chan = <<>>
    /\ args = None
    /\ outcome = "idle"
    /\ ncalls = 0

\* One call of NotifyNewSource(args).  A panic unwinds the thread that owns
\* the global, so no call follows one.
NotifyNewSource(a) ==
    /\ outcome \notin Panics
    /\ LET r == NotifyNewSourceResult(a, devtools_chan, connected, chan)
       IN  /\ chan' = r.chan
           /\ outcome' = r.outcome
    /\ args' = Some(a)
    /\ ncalls' = ncalls + 1
    /\ UNCHANGED <<devtools_chan, connected>>

Notify == \E a \in Notifications : ncalls < MaxCalls /\ NotifyNewSource(a)

NotifySeq == \E a \in SeqNotifications : ncalls < MaxSeqCalls /\ NotifyNewSource(a)

Next == Notify

NextSeq == NotifySeq

Spec == Init /\ [][Next]_vars

SpecSeq == Init /\ [][NextSeq]_vars

(***************************************************************************)
(* Properties                                                              *)
(***************************************************************************)
\* The notification of the call that led to the current state.
LastArgs == Unwrap(args)
Last(q) == q[Len(q)]

\* The override URL of notification a, parsed with the parsed original URL as
\* base (no base when the original does not parse).
OverrideAgainstOriginal(a) ==
    IF IsNone(a.urlOverride) THEN None
    ELSE ParseWithBase(Parse(a.url), Unwrap(a.urlOverride))

OverrideResolved(a) == IsSome(OverrideAgainstOriginal(a))

\* The URL a message for notification a is to carry.
ExpectedUrl(a) ==
    IF OverrideResolved(a) THEN OverrideAgainstOriginal(a) ELSE Parse(a.url)

SevenTypes ==
    {Some("injectedScript"), Some("eval"), Some("debugger eval"), Some("Function"),
     Some("javascriptURL"), Some("eventHandler"), Some("domTimer")}

EphemeralWithoutOverride(a) ==
    a.introductionType \in SevenTypes /\ ~OverrideResolved(a)

\* The three expected suppressions.
Suppressed(a) ==
    \/ IsNone(a.introductionType)
    \/ EphemeralWithoutOverride(a)
    \/ IsNone(ExpectedUrl(a))

WorkerIdMalformed(a) ==
    IsSome(a.workerId) /\ IsNone(ParseWorkerId(Unwrap(a.workerId)))

\* C1: with no devtools channel configured no message is ever sent and no call
\* panics, whatever the notification carries.
C1_NoSinkNoOp ==
    IsNone(devtools_chan) => (chan = <<>> /\ outcome \notin Panics)

C1_Witness ==
    /\ IsNone(devtools_chan)
    /\ IsSome(args)
    /\ LastArgs.pipelineId.index = 0
    /\ WorkerIdMalformed(LastArgs)
    /\ LastArgs.introductionType = Some("normalScript")
    /\ IsSome(Parse(LastArgs.url))
    /\ outcome = "no_devtools_chan"

\* C2: a call whose notification has one of the seven ephemeral introduction
\* types and no resolved override URL leaves the channel as it was, whether
\* or not the original URL parses.
C2_EphemeralSuppression ==
    [][EphemeralWithoutOverride(Unwrap(args')) => chan' = chan]_vars

C2_Witness ==
    /\ IsSome(devtools_chan) /\ connected
    /\ IsSome(args)
    /\ LastArgs.pipelineId.index # 0
    /\ LastArgs.introductionType = Some("domTimer")
    /\ IsSome(Parse(LastArgs.url))
    /\ LastArgs.urlOverride = Some(UrlEmptyHost)
    /\ ~WorkerIdMalformed(LastArgs)
    /\ chan = <<>>
    /\ outcome = "not_creating_ephemeral"

\* C3: every message sent carries the override URL parsed against the parsed
\* original URL when that parse succeeds, and the parsed original URL
\* otherwise.
C3_UrlReconciliation ==
    [][chan' # chan =>
        /\ chan' = Append(chan, Last(chan'))
        /\ Some(Last(chan').source_info.url) = ExpectedUrl(Unwrap(args'))]_vars

\* Both URLs parse, differ, and the override (a relative reference resolved
\* against the original) is the one sent.
C3_Witness ==
    /\ outcome = "sent"
    /\ chan # <<>>
    /\ LastArgs.url = UrlPage
    /\ LastArgs.urlOverride = Some(UrlRelative)
    /\ Last(chan).source_info.url = Unwrap(Parse(UrlEvaled))
    /\ Last(chan).source_info.url # Unwrap(Parse(LastArgs.url))

\* C4: in every message sent, inline holds exactly when the introduction type
\* is "inlineScript" and no override URL was resolved; content is absent
\* exactly when inline holds and is the notification's text otherwise.
C4_InlineDetection ==
    [][chan' # chan =>
        LET a == Unwrap(args')
            si == Last(chan').source_info
        IN  /\ si.inline <=>
                  (a.introductionType = Some("inlineScript") /\ ~OverrideResolved(a))
            /\ IsNone(si.content) <=> si.inline
            /\ ~si.inline => si.content = Some(a.text)]_vars

\* inlineScript with a resolved override URL: sent, not inline, with content.
C4_Witness ==
    /\ outcome = "sent"
    /\ chan # <<>>
    /\ LastArgs.introductionType = Some("inlineScript")
    /\ OverrideResolved(LastArgs)
    /\ ~Last(chan).source_info.inline
    /\ Last(chan).source_info.content = Some(LastArgs.text)

\* C5: a call whose notification carries no introduction type leaves the
\* channel as it was.
C5_MissingTypeSuppression ==
    [][IsNone(Unwrap(args').introductionType) => chan' = chan]_vars

C5_Witness ==
    /\ IsSome(devtools_chan) /\ connected
    /\ IsSome(args)
    /\ IsNone(LastArgs.introductionType)
    /\ LastArgs.pipelineId.index # 0
    /\ IsSome(Parse(LastArgs.url))
    /\ OverrideResolved(LastArgs)
    /\ ~WorkerIdMalformed(LastArgs)
    /\ chan = <<>>
    /\ outcome = "no_introduction_type"

\* C6: with a channel configured, a call with pipeline index 0 panics and
\* sends nothing, whatever the introduction type; and no message in the
\* channel carries index 0.
C6_ZeroIndexRejection ==
    [][/\ (IsSome(devtools_chan) /\ Unwrap(args').pipelineId.index = 0)
            => (outcome' \in Panics /\ chan' = chan)
       /\ \A i \in 1..Len(chan') : chan'[i].pipeline_id.index # 0]_vars

\* Index 0 with no introduction type: the call panics instead of being
\* suppressed.
C6_Witness ==
    /\ IsSome(devtools_chan)
    /\ IsSome(args)
    /\ LastArgs.pipelineId.index = 0
    /\ IsNone(LastArgs.introductionType)
    /\ outcome = "panic_index"
    /\ chan = <<>>

\* C7: a call for which neither the original URL nor the override URL parses
\* leaves the channel as it was, for every introduction type.
C7_NoUrlNoSourceInfo ==
    [][(IsNone(Parse(Unwrap(args').url)) /\ ~OverrideResolved(Unwrap(args')))
          => chan' = chan]_vars

C7_Witness ==
    /\ IsSome(devtools_chan) /\ connected
    /\ IsSome(args)
    /\ LastArgs.pipelineId.index # 0
    /\ LastArgs.introductionType = Some("inlineScript")
    /\ IsNone(Parse(LastArgs.url))
    /\ LastArgs.urlOverride = Some(UrlRelative)
    /\ ~WorkerIdMalformed(LastArgs)
    /\ chan = <<>>
    /\ outcome = "no_valid_url"

\* The notifications C8 is about: a present type that is neither one of the
\* seven nor "inlineScript", a nonzero index, a worker id that is absent or
\* well formed, and a URL that parses.
OpenVocabularyCase(a) ==
    /\ IsSome(a.introductionType)
    /\ a.introductionType \notin SevenTypes
    /\ a.introductionType # Some("inlineScript")
    /\ a.pipelineId.index # 0
    /\ ~WorkerIdMalformed(a)
    /\ IsSome(ExpectedUrl(a))

ExactlyOneSentNotInline(a, before, after) ==
    /\ Len(after) = Len(before) + 1
    /\ after = Append(before, Last(after))
    /\ ~Last(after).source_info.inline
    /\ Last(after).source_info.content = Some(a.text)

\* C8 as stated: with a channel configured, every such call sends exactly one
\* message, not inline, with the text as content.
C8_AsStated ==
    [][(IsSome(devtools_chan) /\ OpenVocabularyCase(Unwrap(args')))
          => ExactlyOneSentNotInline(Unwrap(args'), chan, chan')]_vars

\* C8 (amended): with a channel configured and its receiving end connected,
\* every such call sends exactly one message, not inline, with the text as
\* content.
C8_OpenVocabularyDefault ==
    [][(IsSome(devtools_chan) /\ connected /\ OpenVocabularyCase(Unwrap(args')))
          => ExactlyOneSentNotInline(Unwrap(args'), chan, chan')]_vars

\* A type that differs from an ephemeral one only in case is sent.
C8_Witness ==
    /\ IsSome(devtools_chan) /\ connected
    /\ IsSome(args)
    /\ LastArgs.introductionType = Some("Eval")
    /\ IsNone(LastArgs.urlOverride)
    /\ OpenVocabularyCase(LastArgs)
    /\ outcome = "sent"
    /\ chan # <<>>
    /\ ~Last(chan).source_info.inline
    /\ Last(chan).source_info.content = Some(LastArgs.text)

\* A notification that is neither suppressed nor a contract violation.
Accepted(a) ==
    /\ a.pipelineId.index # 0
    /\ ~Suppressed(a)
    /\ ~WorkerIdMalformed(a)

\* The one message an accepted notification contributes.
MessageFor(a) ==
    [pipeline_id |-> [namespace_id |-> a.pipelineId.namespaceId,
                      index |-> a.pipelineId.index],
     source_info |->
        [url |-> Unwrap(ExpectedUrl(a)),
         introduction_type |-> Unwrap(a.introductionType),
         inline |-> (a.introductionType = Some("inlineScript")
                       /\ ~OverrideResolved(a)),
         worker_id |-> IF IsNone(a.workerId) THEN None
                       ELSE ParseWorkerId(Unwrap(a.workerId)),
         content |-> IF a.introductionType = Some("inlineScript")
                          /\ ~OverrideResolved(a)
                     THEN None ELSE Some(a.text),
         content_type |-> None,
         spidermonkey_id |-> a.spidermonkeyId]]

\* C9: on a configured, connected channel every call appends exactly the one
\* message of its notification when the notification is accepted and leaves
\* the channel as it was otherwise; what it appends is a function of the
\* notification alone.
C9_MessagesAreAcceptedInOrder ==
    [][(IsSome(devtools_chan) /\ connected) =>
          chan' = IF Accepted(Unwrap(args'))
                  THEN Append(chan, MessageFor(Unwrap(args')))
                  ELSE chan]_vars

\* Three calls, the last suppressed, two different messages queued.
C9_Witness ==
    /\ IsSome(devtools_chan) /\ connected
    /\ ncalls = 3
    /\ Len(chan) = 2
    /\ chan[1] # chan[2]
    /\ chan[1].source_info.inline
    /\ outcome \in Suppressions

\* C10: with a channel configured and a nonzero index, a suppressed
\* notification never panics and sends nothing, even with a malformed worker
\* id and a disconnected channel; a notification that passes the suppression
\* checks panics, sending nothing, exactly when its worker id is malformed or
\* the channel is disconnected.
C10_SuppressionIsNeverFatal ==
    [][(IsSome(devtools_chan) /\ Unwrap(args').pipelineId.index # 0) =>
          LET a == Unwrap(args')
          IN  /\ Suppressed(a) => (outcome' \notin Panics /\ chan' = chan)
              /\ ~Suppressed(a) =>
                    ((WorkerIdMalformed(a) \/ ~connected)
                        <=> (outcome' \in Panics /\ chan' = chan))]_vars

\* An ephemeral notification with a malformed worker id on a disconnected
\* channel returns normally.
C10_Witness ==
    /\ IsSome(devtools_chan) /\ ~connected
    /\ IsSome(args)
    /\ LastArgs.pipelineId.index # 0
    /\ WorkerIdMalformed(LastArgs)
    /\ EphemeralWithoutOverride(LastArgs)
    /\ outcome = "not_creating_ephemeral"
    /\ chan = <<>>

====
